---------------------------- MODULE Spec2Model ----------------------------
(***************************************************************************)
(* Model of src/cpp/CreateCard.cpp: the record loader, the check-digit     *)
(* calculator, the barcode emitter and the page compositor / finalizer.    *)
(*                                                                         *)
(* A std::string is a sequence of character codes (ASCII).  The document   *)
(* renderer (libharu), the barcode renderer (zint) and the file system are *)
(* collaborators: every call into them has its outcome drawn                *)
(* nondeterministically from the outcomes the call can report.             *)
(***************************************************************************)
EXTENDS Integers, Sequences, FiniteSets, TLC

\* ------------------------------------------------------------------ bounds
\* Longest number handed to calculate_check_digit in SpecCheckDigit.
MaxDigits == 12
\* Numbers up to this length are enumerated over all ten digits.
ShortLen == 4
\* Longest input file (in characters) enumerated in SpecLoad.
MaxFileLen == 6
\* Most records of an input file in Spec.
MaxRecords == 3

\* ------------------------------------------------------- character codes
NL == 10
Comma == 44
Zero == 48
Minus == 45

\* option_1 = 13: the symbol carries 13 digits, 12 of data and the check digit.
Ean13Len == 13

\* ---------------------------------------------------------------- helpers
RECURSIVE Sum(_, _)
\* Sum of f[i] for i in S.
Sum(f, S) ==
    IF S = {} THEN 0
    ELSE LET i == CHOOSE j \in S : TRUE IN f[i] + Sum(f, S \ {i})

\* All sequences over S of length lo..hi.
SeqsOf(S, lo, hi) == UNION {[1..n -> S] : n \in lo..hi}

\* C++ integer remainder: truncates toward zero, sign of the dividend.
CRem(a, b) == IF a >= 0 THEN a % b ELSE -((-a) % b)

RECURSIVE NatToString(_)
\* Decimal digits of n >= 0, most significant first.
NatToString(n) ==
    IF n < 10 THEN <<Zero + n>>
    ELSE Append(NatToString(n \div 10), Zero + (n % 10))

\* std::to_string(int)
to_string(n) == IF n < 0 THEN <<Minus>> \o NatToString(-n) ELSE NatToString(n)

\* ------------------------------------------------- calculate_check_digit
RECURSIVE CheckDigitLoop(_, _, _, _)
\* The for loop of calculate_check_digit; i is the 0-based index.
\* Returns <<sum_odd, sum_even>>.
CheckDigitLoop(number, i, sum_odd, sum_even) ==
    IF ~(i < Len(number)) THEN <<sum_odd, sum_even>>
    ELSE LET digit == number[i + 1] - Zero IN
         IF i % 2 = 0
         THEN CheckDigitLoop(number, i + 1, sum_odd + digit, sum_even)
         ELSE CheckDigitLoop(number, i + 1, sum_odd, sum_even + digit)

\* Line 45 with the weights exchanged.
CheckDigitValueSwapped(sum_odd, sum_even) ==
    CRem(10 - CRem(3 * sum_odd + sum_even, 10), 10)

\* Line 45 without the outer % 10.
CheckDigitValueNoWrap(sum_odd, sum_even) ==
    10 - CRem(sum_odd + 3 * sum_even, 10)

\* int check_digit = (10 - (sum_odd + 3 * sum_even) % 10) % 10;
CheckDigitValue(sum_odd, sum_even) ==
    CRem(10 - CRem(sum_odd + 3 * sum_even, 10), 10)

calculate_check_digit(number) ==
    LET sums == CheckDigitLoop(number, 0, 0, 0) IN
    to_string(CheckDigitValue(sums[1], sums[2]))

\* ------------------------------------------------------------- load_data
\* What std::ifstream file(csv_file) finds at the path: no file that opens,
\* or a file with its content.
NoFile == [is_open |-> FALSE, content |-> <<>>]
File(content) == [is_open |-> TRUE, content |-> content]

RECURSIVE ScanTo(_, _, _)
\* First position >= pos holding delim, or Len(s) + 1 when there is none.
ScanTo(s, pos, delim) ==
    IF pos > Len(s) THEN Len(s) + 1
    ELSE IF s[pos] = delim THEN pos
    ELSE ScanTo(s, pos + 1, delim)

\* std::getline(stream, str, delim) on a stream over s whose read position
\* is pos: [ok, str, pos].  It fails when nothing is left to extract; the
\* delimiter is extracted and not stored.  str is the string's value before
\* the call, kept when the call fails.
getline(s, pos, delim, str) ==
    IF pos > Len(s)
    THEN [ok |-> FALSE, str |-> str, pos |-> pos]
    ELSE LET j == ScanTo(s, pos, delim) IN
         [ok |-> TRUE, str |-> SubSeq(s, pos, j - 1), pos |-> j + 1]

\* Lines 25-30: the three getline calls on the line's istringstream.
ParseRecord(line) ==
    LET g1 == getline(line, 1, Comma, <<>>)
        g2 == getline(line, g1.pos, Comma, <<>>)
        g3 == getline(line, g2.pos, Comma, <<>>)
    IN  <<g1.str, g2.str, g3.str>>

RECURSIVE ReadRecords(_, _, _)
\* The while loop of load_data.
ReadRecords(content, pos, data) ==
    LET g == getline(content, pos, NL, <<>>) IN
    IF ~g.ok THEN data
    ELSE ReadRecords(content, g.pos, Append(data, ParseRecord(g.str)))

\* load_data without its line 23: the stream stays at the first line.
SkipHeaderNot(content) == 1

\* Position of the stream after "std::getline(file, line); // Skip header".
SkipHeader(content) == getline(content, 1, NL, <<>>).pos

\* load_data on a file that opened.
load_data(content) == ReadRecords(content, SkipHeader(content), <<>>)


\* ------------------------------------------------------------ file names
\* "barcode_"
BarcodePrefix == <<98, 97, 114, 99, 111, 100, 101, 95>>
\* ".png"
PngSuffix == <<46, 112, 110, 103>>
\* std::string barcode_filename = "barcode_" + number + ".png";
barcode_filename(number) == BarcodePrefix \o number \o PngSuffix

\* generate_barcode never hands its filename parameter to the symbol, so
\* both print calls write to the outfile ZBarcode_Create gave the symbol,
\* zint's default "out.png".
ZintOutfile(filename) == <<111, 117, 116, 46, 112, 110, 103>>

\* ---------------------------------------------------------- sample input
\* "a,12,x": a full record line.
LineFull == <<97, 44, 49, 50, 44, 120>>
\* "b,7": a line with a single comma.
LineShort == <<98, 44, 55>>
\* "name,number,info": the header line.
LineHeader == <<110, 97, 109, 101, 44, 110, 117, 109, 98, 101, 114, 44, 105, 110, 102, 111>>
SampleLines == {LineFull, LineShort}

RECURSIVE JoinLines(_)
\* The lines, each ended by a newline.
JoinLines(lines) ==
    IF lines = <<>> THEN <<>>
    ELSE Head(lines) \o <<NL>> \o JoinLines(Tail(lines))

\* Input files of Spec: a header and up to MaxRecords record lines.
SampleFiles ==
    {File(JoinLines(<<LineHeader>> \o body)) :
        body \in SeqsOf(SampleLines, 0, MaxRecords)}

\* Raster files an earlier run may have left in the working directory.
StaleFiles == {barcode_filename(ParseRecord(LineFull)[2])}

\* ------------------------------------------------------------------ state
VARIABLES
    pc,           \* the call main is about to make
    csv,          \* content of "data/name and numbers.csv", or NoFile
    data,         \* create_pdf's data
    idx,          \* position of the range-for in data (1-based)
    disk,         \* raster files present in the working directory
    image,        \* barcode_image is non-null
    payload,      \* full_number of the latest generate_barcode call
    outWritten,   \* "cards.pdf" has been written
    exitCode,     \* main's return value, -1 while it runs
    stderr,       \* kinds of diagnostics written to std::cerr
    created,      \* history: paths the barcode renderer wrote in this run
    failures,     \* history: kinds of failure the collaborators reported
    emitFailedAt, \* history: first record whose barcode failed, 0 if none
    lastFailed,   \* history: the latest call reported a failure
    log,          \* history: the per-record calls made, as <<call, idx>>
    cdNumber,     \* SpecCheckDigit: the argument of calculate_check_digit
    cdResult      \* SpecCheckDigit: its return value

vars == <<pc, csv, data, idx, disk, image, payload, outWritten, exitCode, stderr,
          created, failures, emitFailedAt, lastFailed, log, cdNumber, cdResult>>

Running == -1

\* Values every specification starts from.
Fresh ==
    /\ data = <<>>
    /\ idx = 0
    /\ image = FALSE
    /\ payload = <<>>
    /\ outWritten = FALSE
    /\ exitCode = Running
    /\ stderr = {}
    /\ created = {}
    /\ failures = {}
    /\ emitFailedAt = 0
    /\ lastFailed = FALSE
    /\ log = <<>>

\* main is entered: the input file is missing or one of the sample files,
\* the working directory holds any of the stale raster files.
Init ==
    /\ pc = "HPDF_New"
    /\ csv \in SampleFiles \cup {NoFile}
    /\ disk \in SUBSET StaleFiles
    /\ Fresh
    /\ cdNumber = <<>>
    /\ cdResult = <<>>

\* --------------------------------------------------------------- helpers
\* A collaborator's call reported (failed) or did not report a failure of
\* the given kind; the document renderer reports through error_handler,
\* which writes one "ERROR: ..." line to std::cerr and returns.
error_handler(failed) ==
    stderr' = IF failed THEN stderr \cup {"ERROR"} ELSE stderr

Outcome(kind, failed) ==
    /\ failures' = IF failed THEN failures \cup {kind} ELSE failures
    /\ lastFailed' = failed

\* throw std::runtime_error / std::filesystem::filesystem_error: control
\* leaves create_pdf for the handler in main.
Throw(kind) ==
    /\ pc' = "catch"
    /\ Outcome(kind, TRUE)

\* The record the range-for is at.
Record == data[idx]
Number == Record[2]

\* The range-for moves to position i of recs, or ends.
LoopTo(recs, i) ==
    /\ idx' = i
    /\ pc' = IF i <= Len(recs) THEN "HPDF_Page_TextOut" ELSE "HPDF_SaveToFile"

Logged(call) == log' = Append(log, <<call, idx>>)

\* ------------------------------------------------------------- create_pdf
\* Lines 62-68: HPDF_New and the encoder set-up.
HPDF_New ==
    /\ pc = "HPDF_New"
    /\ \/ /\ Throw("init")
       \/ /\ pc' = "HPDF_GetFont"
          /\ Outcome("init", FALSE)
    /\ UNCHANGED <<csv, data, idx, disk, image, payload, outWritten, exitCode,
                   stderr, created, emitFailedAt, log, cdNumber, cdResult>>

\* Lines 70-73.
HPDF_GetFont ==
    /\ pc = "HPDF_GetFont"
    /\ \/ /\ Throw("font")
          /\ error_handler(TRUE)
       \/ /\ pc' = "load_data"
          /\ Outcome("font", FALSE)
          /\ error_handler(FALSE)
    /\ UNCHANGED <<csv, data, idx, disk, image, payload, outWritten, exitCode,
                   created, emitFailedAt, log, cdNumber, cdResult>>

\* Line 75 with lines 16-33, but a file that does not open yields no record
\* instead of throwing.
CallLoadDataNoThrow ==
    /\ pc = "load_data"
    /\ pc' = "HPDF_AddPage"
    /\ data' = IF ~csv.is_open THEN <<>> ELSE load_data(csv.content)
    /\ Outcome("file", FALSE)
    /\ UNCHANGED <<csv, idx, disk, image, payload, outWritten, exitCode, stderr,
                   created, emitFailedAt, log, cdNumber, cdResult>>

\* Line 75 with lines 16-33: auto data = load_data(csv_file);
CallLoadData ==
    /\ pc = "load_data"
    /\ \/ /\ ~csv.is_open
          /\ Throw("file")
          /\ data' = data
       \/ /\ csv.is_open
          /\ pc' = "HPDF_AddPage"
          /\ data' = load_data(csv.content)
          /\ Outcome("file", FALSE)
    /\ UNCHANGED <<csv, idx, disk, image, payload, outWritten, exitCode, stderr,
                   created, emitFailedAt, log, cdNumber, cdResult>>

\* Lines 76-79: the page is added and sized, the range-for starts.  Like
\* the set-up calls of lines 66-68, these fail on a fresh document only
\* when memory is exhausted, which is not modelled.
HPDF_AddPage ==
    /\ pc = "HPDF_AddPage"
    /\ Outcome("renderer", FALSE)
    /\ LoopTo(data, 1)
    /\ UNCHANGED <<csv, data, disk, image, payload, outWritten, exitCode, stderr,
                   created, emitFailedAt, log, cdNumber, cdResult>>

\* Lines 81-84: the name label.
HPDF_Page_TextOut ==
    /\ pc = "HPDF_Page_TextOut"
    /\ \E failed \in BOOLEAN :
          /\ Outcome("renderer", failed)
          /\ error_handler(failed)
    /\ pc' = "generate_barcode"
    /\ Logged("HPDF_Page_TextOut")
    /\ UNCHANGED <<csv, data, idx, disk, image, payload, outWritten, exitCode,
                   created, emitFailedAt, cdNumber, cdResult>>

\* Lines 86-87 with lines 49-59: the payload is number + check digit; the
\* renderer either writes its raster file or reports an error, which
\* generate_barcode drops (it returns void and checks no return value).
generate_barcode ==
    /\ pc = "generate_barcode"
    /\ payload' = Number \o calculate_check_digit(Number)
    /\ \E failed \in BOOLEAN :
          /\ Outcome("barcode", failed)
          /\ emitFailedAt' = IF failed /\ emitFailedAt = 0 THEN idx ELSE emitFailedAt
          /\ LET out == ZintOutfile(barcode_filename(Number)) IN
             /\ disk' = IF failed THEN disk ELSE disk \cup {out}
             /\ created' = IF failed THEN created ELSE created \cup {out}
    /\ pc' = "HPDF_LoadPngImageFromFile"
    /\ Logged("generate_barcode")
    /\ UNCHANGED <<csv, data, idx, image, outWritten, exitCode, stderr,
                   cdNumber, cdResult>>

\* Line 88: the image loads only from a file that is there.
HPDF_LoadPngImageFromFile ==
    /\ pc = "HPDF_LoadPngImageFromFile"
    /\ \E failed \in BOOLEAN :
          /\ barcode_filename(Number) \notin disk => failed
          /\ image' = ~failed
          /\ Outcome("renderer", failed)
          /\ error_handler(failed)
    /\ pc' = "HPDF_Page_DrawImage"
    /\ Logged("HPDF_LoadPngImageFromFile")
    /\ UNCHANGED <<csv, data, idx, disk, payload, outWritten, exitCode,
                   created, emitFailedAt, cdNumber, cdResult>>

\* Line 89, but with an error handler that throws when drawing fails.
DrawImageThrows ==
    /\ pc = "HPDF_Page_DrawImage"
    /\ \E failed \in BOOLEAN :
          /\ ~image => failed
          /\ error_handler(failed)
          /\ IF failed THEN Throw("renderer")
                       ELSE Outcome("renderer", FALSE) /\ pc' = "remove"
    /\ Logged("HPDF_Page_DrawImage")
    /\ UNCHANGED <<csv, data, idx, disk, image, payload, outWritten, exitCode,
                   created, emitFailedAt, cdNumber, cdResult>>

\* Line 89: a null image cannot be drawn; the failure is reported through
\* error_handler and the call returns.
HPDF_Page_DrawImage ==
    /\ pc = "HPDF_Page_DrawImage"
    /\ \E failed \in BOOLEAN :
          /\ ~image => failed
          /\ Outcome("renderer", failed)
          /\ error_handler(failed)
    /\ pc' = "remove"
    /\ Logged("HPDF_Page_DrawImage")
    /\ UNCHANGED <<csv, data, idx, disk, image, payload, outWritten, exitCode,
                   created, emitFailedAt, cdNumber, cdResult>>

\* Lines 90-91: fs::remove(barcode_filename) deletes the file if it is
\* there, or throws filesystem_error when the system refuses; then the
\* range-for advances.
remove ==
    /\ pc = "remove"
    /\ \/ /\ Throw("remove")
          /\ UNCHANGED <<disk, idx>>
       \/ /\ disk' = disk \ {barcode_filename(Number)}
          /\ Outcome("remove", FALSE)
          /\ LoopTo(data, idx + 1)
    /\ Logged("remove")
    /\ UNCHANGED <<csv, data, image, payload, outWritten, exitCode, stderr,
                   created, emitFailedAt, cdNumber, cdResult>>

\* Line 93: the document is written, or the failure is reported through
\* error_handler; the returned status is dropped.
HPDF_SaveToFile ==
    /\ pc = "HPDF_SaveToFile"
    /\ \E failed \in BOOLEAN :
          /\ outWritten' = ~failed
          /\ Outcome("write", failed)
          /\ error_handler(failed)
    /\ pc' = "HPDF_Free"
    /\ Logged("HPDF_SaveToFile")
    /\ UNCHANGED <<csv, data, idx, disk, image, payload, exitCode,
                   created, emitFailedAt, cdNumber, cdResult>>

\* ------------------------------------------------------------------- main
\* Lines 94-95 and 108: create_pdf returns, main returns 0.
MainReturn ==
    /\ pc = "HPDF_Free"
    /\ pc' = "exit"
    /\ exitCode' = 0
    /\ UNCHANGED <<csv, data, idx, disk, image, payload, outWritten, stderr,
                   created, failures, emitFailedAt, lastFailed, log, cdNumber, cdResult>>

\* Lines 104-107: the handler writes the message and main returns 1.
MainCatch ==
    /\ pc = "catch"
    /\ pc' = "exit"
    /\ stderr' = stderr \cup {"An error occurred"}
    /\ exitCode' = 1
    /\ UNCHANGED <<csv, data, idx, disk, image, payload, outWritten,
                   created, failures, emitFailedAt, lastFailed, log, cdNumber, cdResult>>

Next ==
    \/ HPDF_New
    \/ HPDF_GetFont
    \/ CallLoadData
    \/ HPDF_AddPage
    \/ HPDF_Page_TextOut
    \/ generate_barcode
    \/ HPDF_LoadPngImageFromFile
    \/ HPDF_Page_DrawImage
    \/ remove
    \/ HPDF_SaveToFile
    \/ MainReturn
    \/ MainCatch

Spec == Init /\ [][Next]_vars


\* --------------------------------------------- load_data on its own inputs
\* Characters of the files SpecLoad enumerates: newline, comma, 'a', '1'.
FileAlphabet == {NL, Comma, 97, 49}

InitLoad ==
    /\ pc = "load_data"
    /\ csv \in {File(c) : c \in SeqsOf(FileAlphabet, 0, MaxFileLen)} \cup {NoFile}
    /\ disk = {}
    /\ Fresh
    /\ cdNumber = <<>>
    /\ cdResult = <<>>

NextLoad == CallLoadData

SpecLoad == InitLoad /\ [][NextLoad]_vars

\* ---------------------------------- calculate_check_digit on its own inputs
DigitChars == {Zero + d : d \in 0..9}
\* '3', '8': the digits of the longer numbers.
SampleDigitChars == {Zero + 3, Zero + 8}
\* "123456789012"
ExampleNumber == <<49, 50, 51, 52, 53, 54, 55, 56, 57, 48, 49, 50>>
\* The number with one of its digits replaced by any digit.
OneDigitChanged(number) ==
    {[number EXCEPT ![i] = c] : i \in 1..Len(number), c \in DigitChars}

\* The arguments SpecCheckDigit draws: every number of up to ShortLen
\* digits, the longer ones over two digits, and the example with every
\* digit at every position.
Numbers ==
    SeqsOf(DigitChars, 1, ShortLen)
        \cup SeqsOf(SampleDigitChars, ShortLen + 1, MaxDigits)
        \cup OneDigitChanged(ExampleNumber)

InitCheckDigit ==
    /\ pc = "calculate_check_digit"
    /\ cdNumber \in Numbers
    /\ cdResult = <<>>
    /\ csv = NoFile
    /\ disk = {}
    /\ Fresh

\* Lines 35-47, called on cdNumber.
CallCheckDigit ==
    /\ pc = "calculate_check_digit"
    /\ pc' = "returned"
    /\ cdResult' = calculate_check_digit(cdNumber)
    /\ UNCHANGED <<csv, data, idx, disk, image, payload, outWritten, exitCode, stderr,
                   created, failures, emitFailedAt, lastFailed, log, cdNumber>>

NextCheckDigit == CallCheckDigit

SpecCheckDigit == InitCheckDigit /\ [][NextCheckDigit]_vars

\* ================================================================ claims
\* ---------------------------------------------------- what the claims use
\* The decimal value of each character of s.
DigitsOf(s) == [i \in 1..Len(s) |-> s[i] - Zero]
IsDigitString(s) == \A i \in 1..Len(s) : s[i] \in DigitChars
\* Sums of the digits at the 0-based even and odd indices of s.
EvenIndexSum(s) == Sum(DigitsOf(s), {i \in 1..Len(s) : (i - 1) % 2 = 0})
OddIndexSum(s) == Sum(DigitsOf(s), {i \in 1..Len(s) : (i - 1) % 2 = 1})

\* The lines of a text: the k-th line ends before the k-th newline, a last
\* line without a newline ends with the text.
NewlinesOf(c) == {i \in 1..Len(c) : c[i] = NL}
LineCount(c) ==
    Cardinality(NewlinesOf(c)) + (IF Len(c) > 0 /\ c[Len(c)] # NL THEN 1 ELSE 0)
KthNewline(c, k) ==
    CHOOSE p \in NewlinesOf(c) : Cardinality({q \in NewlinesOf(c) : q <= p}) = k
LineAt(c, k) ==
    LET first == IF k = 1 THEN 1 ELSE KthNewline(c, k - 1) + 1
        last == IF k <= Cardinality(NewlinesOf(c)) THEN KthNewline(c, k) - 1 ELSE Len(c)
    IN  SubSeq(c, first, last)

\* The calls made so far for record i.
Called(call, i) == \E k \in 1..Len(log) : log[k] = <<call, i>>
\* The record at position i has been processed to its end.
RecordEnded(i) == Called("remove", i) /\ (idx > i \/ pc \in {"catch", "exit"})
\* Raster files of this run's barcode renderer that are still on disk.
RastersLeft == created \cap disk
\* The paths create_pdf names for the records up to position n.
NamedPaths(n) == {barcode_filename(data[i][2]) : i \in 1..n}

\* The latest per-record or save call is one of calls and reported a failure.
FailedIn(calls) == lastFailed /\ log # <<>> /\ log[Len(log)][1] \in calls

\* The per-record calls in program order.
RecordCalls ==
    <<"HPDF_Page_TextOut", "generate_barcode", "HPDF_LoadPngImageFromFile",
      "HPDF_Page_DrawImage", "remove">>
\* The k-th call of a run over n records that nothing interrupts.
CanonicalCall(n, k) ==
    IF k <= 5 * n
    THEN <<RecordCalls[((k - 1) % 5) + 1], ((k - 1) \div 5) + 1>>
    ELSE <<"HPDF_SaveToFile", n + 1>>

\* The records are composited strictly in file order, each through its
\* calls once and in program order, and the document is saved at most once,
\* after the last record's remove.
RecordOrder ==
    /\ Len(log) <= 5 * Len(data) + 1
    /\ \A k \in 1..Len(log) : log[k] = CanonicalCall(Len(data), k)

\* ------------------------------------------------------------------- C1
\* C1: every raster file the barcode emitter creates while a record is
\* processed is deleted by the end of that record's step, and none is left
\* when the process exits with status 0.
C1_NoRasterLeft ==
    /\ \A i \in 1..Len(data) : RecordEnded(i) /\ idx = i + 1 => RastersLeft = {}
    /\ exitCode = 0 => RastersLeft = {}

\* ------------------------------------------------------------------- C2
\* C2: once the barcode emitter has failed on record k, no later record is
\* composited, HPDF_SaveToFile is not reached, no document is written, the
\* exit status is not 0 and no raster of records 1..k-1 is left.
C2_EmitterFailureAborts ==
    emitFailedAt > 0 =>
        /\ \A k \in 1..Len(log) : log[k][2] <= emitFailedAt
        /\ ~Called("HPDF_SaveToFile", Len(data) + 1)
        /\ ~outWritten
        /\ exitCode # 0
        /\ RastersLeft = {}

\* ------------------------------------------------------------------- C3
\* C3: the exit status is 0 exactly when nothing failed; every failure
\* gives status 1 with a diagnostic on the error stream, and a run whose
\* document was not written does not exit with 0.
C3_ExitStatus ==
    pc = "exit" =>
        /\ (exitCode = 0) <=> (failures = {})
        /\ failures # {} => exitCode = 1 /\ stderr # {}
        /\ ~outWritten => exitCode # 0

C5_CheckDigitFormula ==
    pc = "returned" /\ cdNumber # <<>> /\ IsDigitString(cdNumber) =>
        /\ Len(cdResult) = 1
        /\ cdResult[1] \in DigitChars
        /\ cdResult[1] - Zero =
               (10 - ((EvenIndexSum(cdNumber) + 3 * OddIndexSum(cdNumber)) % 10)) % 10
        /\ cdNumber = ExampleNumber => cdResult = <<Zero + 8>>

\* calculate_check_digit("123456789012") has returned "8".
C5_Witness ==
    /\ pc = "returned"
    /\ cdNumber = ExampleNumber
    /\ cdResult = <<Zero + 8>>

\* ------------------------------------------------------------------- C6
\* C6: load_data on a file of L >= 1 lines returns L - 1 records, the i-th
\* parsed from line i + 1, whatever the first line holds.
C6_LoadSkipsFirstLine ==
    pc = "HPDF_AddPage" /\ csv.is_open /\ LineCount(csv.content) >= 1 =>
        /\ Len(data) = LineCount(csv.content) - 1
        /\ \A i \in 1..Len(data) : data[i] = ParseRecord(LineAt(csv.content, i + 1))

\* A 4-line file has been loaded into 3 records, the first and the last
\* of them different.
C6_Witness ==
    /\ pc = "HPDF_AddPage"
    /\ csv.is_open
    /\ LineCount(csv.content) = 4
    /\ Len(data) = 3
    /\ data[1] # data[3]
    /\ LineAt(csv.content, 1) # <<>>

\* ------------------------------------------------------------------- C7
\* C7: when the input file does not open, load_data returns no record, no
\* record is composited, no raster file is created, the document is not
\* written and the exit status is 1.
C7_MissingInput ==
    ~csv.is_open =>
        /\ data = <<>>
        /\ log = <<>>
        /\ created = {}
        /\ ~outWritten
        /\ pc \in {"HPDF_New", "HPDF_GetFont", "load_data", "catch", "exit"}
        /\ pc = "exit" => exitCode = 1

\* The run on a missing input file has ended after load_data threw.
C7_Witness ==
    /\ ~csv.is_open
    /\ pc = "exit"
    /\ "file" \in failures
    /\ exitCode = 1

\* ------------------------------------------------------------------- C8
\* C8: every run follows Init -> Loading -> (CheckDigit -> Emit -> Draw ->
\* Cleanup) per record in file order -> Finalizing -> Done, and Error is
\* reachable from every state: a failure reported in Emit or in Finalizing
\* takes the run to Error, and a run that ends after a failed call ends with
\* a non-zero exit status.
C8_StateMachine ==
    /\ RecordOrder
    /\ FailedIn({"generate_barcode", "HPDF_SaveToFile"}) => pc \in {"catch", "exit"}
    /\ pc = "exit" /\ lastFailed => exitCode # 0

\* ------------------------------------------------------------------- C9
\* C9: the file generate_barcode writes is the one at its filename
\* argument, "barcode_" + number + ".png", which create_pdf then loads and
\* removes; the emitter creates no file at another path.
C9_EmitterWritesOutPath ==
    /\ created \subseteq NamedPaths(IF idx > Len(data) THEN Len(data) ELSE idx)
    /\ pc = "HPDF_LoadPngImageFromFile" /\ ~lastFailed
           => barcode_filename(Number) \in disk

\* ------------------------------------------------------------------ C10
\* C10: for a string s of 12 decimal digits, p = s + calculate_check_digit(s)
\* has 13 digits with (even-index sum + 3 * odd-index sum) mod 10 = 0.
C10_PayloadIsValidEan13 ==
    pc = "returned" /\ Len(cdNumber) = Ean13Len - 1 /\ IsDigitString(cdNumber) =>
        LET p == cdNumber \o cdResult IN
        /\ Len(p) = Ean13Len
        /\ IsDigitString(p)
        /\ (EvenIndexSum(p) + 3 * OddIndexSum(p)) % 10 = 0

\* A 12-digit number other than the example has got a non-zero check digit.
C10_Witness ==
    /\ pc = "returned"
    /\ Len(cdNumber) = Ean13Len - 1
    /\ cdNumber # ExampleNumber
    /\ cdResult # <<Zero>>

=============================================================================
